---- MODULE Spec2Model ----
(***************************************************************************)
(* freepik-seedream-mcp: the HTTP message endpoint of src/server.ts (the   *)
(* handler of lines 12-323), the SSE server of src/server.ts (lines        *)
(* 640-733), the tool registry of src/index.ts (unnamed/part_000) and the  *)
(* vendor they call.                                                       *)
(*                                                                         *)
(* One handler invocation is a record: the request it was given, the       *)
(* handler's local variables, its position (pc) and the response it wrote. *)
(* The handler runs atomically between two awaits; every await on the      *)
(* vendor or on the poll timer is a step of its own, and the vendor's      *)
(* answer to a request is chosen there from VendorGenerateReplies,         *)
(* VendorStatusReplies or VendorSearchReplies.                             *)
(*                                                                         *)
(* Spec is one invocation at a time of the HTTP endpoint or of the         *)
(* registry; SpecSse is the SSE server with its streams and session map;   *)
(* SpecServers is both servers; SpecConc is two invocations in flight;     *)
(* SpecLive is a poll under fairness of the vendor and the timer.          *)
(***************************************************************************)
EXTENDS Integers, Sequences, FiniteSets, TLC

VARIABLES
    deployment, \* which server.ts is running: the HTTP endpoint or the SSE server
    envKey,     \* process.env.FREEPIK_API_KEY ("" when unset)
    serving,    \* the node process is alive and accepts requests
    h,          \* slot -> handler invocation
    sse,        \* the SSE server's streams, its session map, its server's transport
    issued      \* the task ids the vendor has returned so far

vars == <<deployment, envKey, serving, h, sse, issued>>

-----------------------------------------------------------------------------
(* Bounds of the model *)

\* longest `generated` list a status reply carries
MaxAssets == 2
\* JSON-RPC ids the clients use: 1..MaxReqId
MaxReqId == 2
\* SSE streams opened in the life of the SSE server
MaxConns == 2
\* most resources on one page of search results
MaxItems == 12

(* Program constants *)

\* for (let i = 0; i < 45; i++)
MaxPolls == 45
\* setTimeout(r, 2000)
PollIntervalMs == 2000
\* waitForCompletion's default number of attempts (spec 4.2)
DefaultMaxAttempts == 60
\* guidance_scale: z.number().min(1).max(10)
GuidanceMin == 1
GuidanceMax == 10
\* limit: z.number().min(1).max(200)
LimitMin == 1
LimitMax == 200
\* limit: String(args.limit || 10)
HttpDefaultLimit == 10
\* result.data.slice(0, 10)
SummaryMax == 10

\* handler invocations that can be in flight
Slots == {1}

\* the same where two invocations are in flight together
AllSlots == {1, 2}

-----------------------------------------------------------------------------
(* JavaScript values *)

Undefined == "undefined"

\* obj.f, undefined when the object has no such property
Get(obj, f) == IF f \in DOMAIN obj THEN obj[f] ELSE Undefined

Has(obj, f) == f \in DOMAIN obj

\* !x for the strings the model uses
FalsyStr(x) == x \in {Undefined, ""}

\* transports.set(key, c)
MapSet(map, key, c) ==
    [k \in DOMAIN map \cup {key} |-> IF k = key THEN c ELSE map[k]]

\* transports.delete(key)
MapDelete(map, key) == [k \in DOMAIN map \ {key} |-> map[k]]

-----------------------------------------------------------------------------
(* The vendor *)

TaskIds == {"task-1"}

\* one produced asset: the shapes firstGen is probed for (server.ts 216-217),
\* and one with none of them
AssetShapes ==
    { [url |-> "https://cdn/a.png"],
      [image |-> "https://cdn/b.png"],
      [string |-> "https://cdn/c.png"],
      [base64 |-> "iVBOR"] }

GeneratedLists ==
    {<<>>} \cup { [j \in 1..n |-> a] : a \in AssetShapes, n \in 1..MaxAssets }

\* the vendor nests its answer under `data`, or does not
Enveloped(inner) == [data |-> inner]

ErrorBody == [message |-> "vendor error"]

\* A reply to fetch(): the request is rejected (network error), or answered with
\* an HTTP status class and a body that is JSON (json = TRUE, body) or is not.
Rejected == [net |-> "reject", ok |-> FALSE, json |-> FALSE, body |-> ErrorBody]

NotJson(ok) == [net |-> "answer", ok |-> ok, json |-> FALSE, body |-> ErrorBody]

Json(ok, body) == [net |-> "answer", ok |-> ok, json |-> TRUE, body |-> body]

VendorGenerateReplies ==
    { Rejected, NotJson(TRUE), NotJson(FALSE), Json(FALSE, ErrorBody), Json(TRUE, ErrorBody) }
    \cup { Json(TRUE, [task_id |-> t, status |-> "CREATED"]) : t \in TaskIds }
    \cup { Json(TRUE, Enveloped([task_id |-> t, status |-> "CREATED"])) : t \in TaskIds }

PendingStatuses == {"CREATED", "IN_PROGRESS"}

FailedStatuses == {"FAILED", "ERROR"}

VendorStatusReplies ==
    { Rejected, NotJson(TRUE), NotJson(FALSE), Json(FALSE, ErrorBody), Json(TRUE, ErrorBody) }
    \cup { Json(TRUE, [status |-> st, generated |-> <<>>]) : st \in PendingStatuses }
    \cup { Json(TRUE, Enveloped([status |-> "IN_PROGRESS"])) }
    \cup { Json(TRUE, Enveloped([status |-> "COMPLETED", generated |-> g])) : g \in GeneratedLists }
    \cup { Json(TRUE, [status |-> "COMPLETED", generated |-> <<[url |-> "https://cdn/a.png"]>>]) }
    \cup { Json(TRUE, [status |-> "COMPLETED"]) }
    \cup { Json(TRUE, Enveloped([status |-> st, message |-> "nsfw"])) : st \in FailedStatuses }

\* the task ids a reply carries, at the top of its body or under `data`
IssuedBy(reply) ==
    IF ~reply.json THEN {}
    ELSE { Get(reply.body, "task_id"),
           IF Has(reply.body, "data") THEN Get(reply.body.data, "task_id") ELSE Undefined }
         \ {Undefined}

\* a resource of a search result: with preview image and author, or without
ItemShapes == {"full", "bare"}

Item(j, shape) ==
    IF shape = "full"
    THEN [id |-> j, title |-> "sunset", url |-> "https://www.freepik.com/r",
          image |-> [source |-> [url |-> "https://img/p.jpg"]],
          author |-> [name |-> "ann"]]
    ELSE [id |-> j, title |-> "sunset"]

\* one page of n resources out of total matches
Page(n, shape, total) ==
    [data |-> [j \in 1..n |-> Item(j, shape)], meta |-> [pagination |-> [total |-> total]]]

VendorSearchReplies ==
    { Rejected, NotJson(TRUE), NotJson(FALSE), Json(FALSE, ErrorBody), Json(TRUE, ErrorBody) }
    \cup { Json(TRUE, Page(n, shape, total)) :
             n \in 0..MaxItems, shape \in ItemShapes, total \in {MaxItems, 42} }

\* the vendor returns no more resources than the request's limit
HonoursLimit(reply, limit) ==
    (reply.json /\ Has(reply.body, "data")) => Len(reply.body.data) <= limit

-----------------------------------------------------------------------------
(* Requests *)

ReqIds == 1..MaxReqId

\* the `config` query parameter: absent, not base64 of JSON, an object without
\* freepikApiKey, an object with one, an object whose freepikApiKey is ''
ConfigParams == {"absent", "garbage", "nokey", "key", "emptykey"}

ConfigKey == "cfg-key"

GenerateArgs ==
    { [prompt |-> "a cat"],
      [prompt |-> "a cat", wait_for_result |-> FALSE],
      [prompt |-> "a cat", wait_for_result |-> TRUE] }
    \cup { [prompt |-> "a cat", guidance_scale |-> g] :
             g \in {GuidanceMin - 1, GuidanceMin, GuidanceMax, GuidanceMax + 1} }

SearchArgs ==
    { [term |-> "sunset"] }
    \cup { [term |-> "sunset", limit |-> l] :
             l \in {LimitMin - 1, LimitMin, LimitMax, LimitMax + 1} }

\* seedream_status: a task id the vendor has or may have returned, and one it
\* never returns
StatusArgs == { [task_id |-> t] : t \in TaskIds \cup {"task-0"} }

NoArgs == [none |-> TRUE]

HttpTools == {"seedream_generate", "search_resources"}

ToolCalls ==
    { [name |-> "seedream_generate", arguments |-> a] : a \in GenerateArgs }
    \cup { [name |-> "search_resources", arguments |-> a] : a \in SearchArgs }
    \cup { [name |-> n, arguments |-> NoArgs] : n \in {"seedream_status", "no_such_tool"} }
    \cup { [name |-> "seedream_status", arguments |-> a] : a \in StatusArgs }

NoCall == [name |-> "none", arguments |-> NoArgs]

\* what JSON.parse(body) gives: a SyntaxError, null, or a message object
Messages ==
    { [body |-> b, method |-> "none", id |-> 0, params |-> NoCall] : b \in {"not_json", "null"} }
    \cup { [body |-> "object", method |-> m, id |-> i, params |-> NoCall] :
             m \in {"initialize", "tools/list", "resources/list"}, i \in ReqIds }
    \cup { [body |-> "object", method |-> "tools/call", id |-> i, params |-> c] :
             i \in ReqIds, c \in ToolCalls }

NoMessage == [body |-> "none", method |-> "none", id |-> 0, params |-> NoCall]

\* url.searchParams.get('sessionId') when the request has none
NoSessionId == <<"none", 0>>

\* the requests of the HTTP endpoint: what decides the route, the config
\* parameter and the body
HttpRequests ==
    { [transport |-> "http", route |-> r, cfg |-> "absent", sessionId |-> NoSessionId,
        message |-> NoMessage] :
        r \in {"OPTIONS", "GET /health", "GET /other", "GET //"} }
    \cup { [transport |-> "http", route |-> "POST /mcp", cfg |-> c, sessionId |-> NoSessionId,
               message |-> m] :
             c \in ConfigParams, m \in Messages }

\* the tool calls that reach the registry of createServer through the SSE
\* server's /messages endpoint
RegistryRequests ==
    { [transport |-> "mcp", route |-> "POST /messages", cfg |-> "absent",
       sessionId |-> NoSessionId,
       message |-> [body |-> "object", method |-> "tools/call", id |-> i, params |-> c]] :
        i \in ReqIds, c \in { t \in ToolCalls : t.name \in HttpTools \cup {"seedream_status"} } }

-----------------------------------------------------------------------------
(* A handler invocation *)

NoResponse ==
    [code |-> 0, envelope |-> "none", isError |-> FALSE, kind |-> "none",
     id |-> 0, detail |-> "", tools |-> {}, total |-> 0, summary |-> <<>>]

NoRequest ==
    [transport |-> "none", route |-> "none", cfg |-> "absent", sessionId |-> NoSessionId,
     message |-> NoMessage]

Idle ==
    [ pc |-> "idle",
      req |-> NoRequest,
      apiKey |-> "",            \* let apiKey
      i |-> 0,                  \* the poll loop's counter
      taskId |-> Undefined,     \* const taskId
      result |-> <<>>,          \* let result = null; <<statusData>> once set
      lastStatus |-> "UNKNOWN", \* let lastStatus
      sentKeys |-> {},          \* x-freepik-api-key headers sent
      genReqs |-> 0,            \* generation requests sent
      checks |-> 0,             \* status checks sent
      searchReqs |-> 0,         \* search requests sent
      sentLimit |-> 0,          \* the limit of the search request
      waits |-> 0,              \* poll timers awaited
      waitedMs |-> 0,           \* their total
      allPending |-> TRUE,      \* no status check was answered with a terminal status
      pendingBefore |-> TRUE,   \* allPending as it was before the last answer
      thrown |-> "",            \* the error raised in the tool handler, if any
      non2xx |-> FALSE,         \* the vendor answered a request with a non-2xx status
      vendorCount |-> 0,        \* the resources on the vendor's page
      vendorTotal |-> 0,        \* the vendor's count of all matches
      checkedIds |-> {},        \* the task ids of the status checks sent
      clientGone |-> FALSE,     \* the client's connection closed before the response
      handedTo |-> 0,           \* the SSE transport whose handlePostMessage got the body
      captured |-> 0,           \* the server's transport when the message arrived
      deliveredTo |-> 0,        \* the SSE stream the JSON-RPC response was written to
      response |-> NoResponse,
      nResponses |-> 0 ]

VendorRequests(r) == r.genReqs + r.checks + r.searchReqs

\* throw: an awaited promise rejects, or the handler's own throw new Error(...)
Throw(r, cause) == [r EXCEPT !.thrown = cause]

\* res.writeHead(code, ...); res.end(JSON.stringify(...))
Respond(r, resp) ==
    [r EXCEPT !.pc = "done", !.response = resp, !.nResponses = @ + 1]

\* { jsonrpc: '2.0', id: message.id, result: { content: [...], isError? } }
ToolResult(r, kind, isError, detail) ==
    [code |-> 200, envelope |-> "result", isError |-> isError, kind |-> kind,
     id |-> r.req.message.id, detail |-> detail, tools |-> {}, total |-> 0, summary |-> <<>>]

\* { jsonrpc: '2.0', id: message.id, error: { code: -32601, message } }
RpcError(r, kind) ==
    [code |-> 200, envelope |-> "error", isError |-> FALSE, kind |-> kind,
     id |-> r.req.message.id, detail |-> "", tools |-> {}, total |-> 0, summary |-> <<>>]

\* a body that is no JSON-RPC message: the health document, the 500's { error }
Plain(code, kind) ==
    [code |-> code, envelope |-> "plain", isError |-> FALSE, kind |-> kind,
     id |-> 0, detail |-> "", tools |-> {}, total |-> 0, summary |-> <<>>]

-----------------------------------------------------------------------------
(* The HTTP endpoint: server.ts, the request handler of lines 12-323 *)

\* JSON.parse(Buffer.from(configParam, 'base64').toString('utf-8')): a
\* SyntaxError (ok = FALSE), or the object the parameter encodes
DecodeConfig(cfg) ==
    IF cfg = "key" THEN [ok |-> TRUE, decoded |-> [freepikApiKey |-> ConfigKey]]
    ELSE IF cfg = "emptykey" THEN [ok |-> TRUE, decoded |-> [freepikApiKey |-> ""]]
    ELSE IF cfg = "nokey" THEN [ok |-> TRUE, decoded |-> [other |-> "x"]]
    ELSE [ok |-> FALSE, decoded |-> [other |-> "x"]]

\* the environment's key wins when there is one
ResolveApiKey_EnvFirst(env, cfg) ==
    IF ~FalsyStr(env) THEN env
    ELSE IF cfg # "absent" /\ DecodeConfig(cfg).ok
            /\ ~FalsyStr(Get(DecodeConfig(cfg).decoded, "freepikApiKey"))
         THEN DecodeConfig(cfg).decoded.freepikApiKey
         ELSE env

\* let apiKey = process.env.FREEPIK_API_KEY || ''; then the config parameter:
\* decoded.freepikApiKey replaces it when the parameter decodes and has one;
\* a parameter that does not decode is logged and ignored
ResolveApiKey(env, cfg) ==
    IF cfg # "absent" /\ DecodeConfig(cfg).ok
       /\ ~FalsyStr(Get(DecodeConfig(cfg).decoded, "freepikApiKey"))
    THEN DecodeConfig(cfg).decoded.freepikApiKey
    ELSE env

\* responseData.data || responseData
Unwrap(body) == IF Has(body, "data") THEN body.data ELSE body

\* statusData.generated?.length > 0
HasGenerated(statusData) ==
    Has(statusData, "generated") /\ Len(statusData.generated) > 0

\* firstGen.url || firstGen.image || firstGen.uri || firstGen.src ||
\* (typeof firstGen === 'string' ? firstGen : null)
ExtractUrl(firstGen) ==
    IF ~FalsyStr(Get(firstGen, "url")) THEN firstGen.url
    ELSE IF ~FalsyStr(Get(firstGen, "image")) THEN firstGen.image
    ELSE IF ~FalsyStr(Get(firstGen, "uri")) THEN firstGen.uri
    ELSE IF ~FalsyStr(Get(firstGen, "src")) THEN firstGen.src
    ELSE IF Has(firstGen, "string") THEN firstGen.string
    ELSE Undefined

\* the vendor's answer as fetch() and response.json() see it; the handler never
\* reads response.ok
NoteReply(r, reply) ==
    [r EXCEPT !.non2xx = @ \/ (reply.net = "answer" /\ ~reply.ok),
              !.vendorCount = IF reply.json /\ Has(reply.body, "meta")
                              THEN Len(reply.body.data) ELSE @,
              !.vendorTotal = IF reply.json /\ Has(reply.body, "meta")
                              THEN reply.body.meta.pagination.total ELSE @]

\* the catch answers without the error flag
GenerateCatch_Untagged(r) ==
    Respond(r, ToolResult(r, "caught", FALSE, r.thrown))

\* the catch rethrows: the error reaches the outer catch's 500
GenerateCatch_Rethrow(r) ==
    Respond(r, Plain(500, "internal_error"))

\* seedream_generate's catch (error): result { content: 'Error: ...', isError: true }
GenerateCatch(r) ==
    Respond(r, ToolResult(r, "caught", TRUE, r.thrown))

\* search_resources' catch (error)
SearchCatch(r) ==
    Respond(r, ToolResult(r, "caught", TRUE, r.thrown))

\* the first await of seedream_generate: fetch(.../seedream, POST, x-freepik-api-key)
StartGenerate(r) ==
    [r EXCEPT !.pc = "generating", !.genReqs = @ + 1, !.sentKeys = @ \cup {r.apiKey}]

\* limit: String(args.limit || 10)
HttpLimit(args) ==
    IF Has(args, "limit") /\ args.limit # 0 THEN args.limit ELSE HttpDefaultLimit

\* the await of search_resources: fetch(.../resources?term=..&limit=..)
StartSearch(r) ==
    [r EXCEPT !.pc = "searching", !.searchReqs = @ + 1, !.sentKeys = @ \cup {r.apiKey},
              !.sentLimit = HttpLimit(r.req.message.params.arguments)]

\* the guard is missing
NoApiKey_Unchecked(r) == FALSE

\* if (!apiKey): the guard that precedes the dispatch on the tool's name
NoApiKey(r) == FalsyStr(r.apiKey)

\* the dispatch has no branch for an unknown name: it ends in the last tool
HttpToolsCall_NoUnknownBranch(r) ==
    LET toolName == r.req.message.params.name IN
    IF NoApiKey(r) THEN Respond(r, ToolResult(r, "no_api_key", TRUE, ""))
    ELSE IF toolName = "seedream_generate" THEN StartGenerate(r)
    ELSE StartSearch(r)

\* tools/call
HttpToolsCall(r) ==
    LET toolName == r.req.message.params.name IN
    IF NoApiKey(r) THEN Respond(r, ToolResult(r, "no_api_key", TRUE, ""))
    ELSE IF toolName = "seedream_generate" THEN StartGenerate(r)
    ELSE IF toolName = "search_resources" THEN StartSearch(r)
    ELSE Respond(r, RpcError(r, "unknown_tool"))

\* tools/list: result.tools, the names
HttpListedTools == {"seedream_generate", "search_resources"}

\* tools/list: seedream_generate's aspect_ratio enum
HttpAspectRatios == {"square_1_1", "widescreen_16_9", "portrait_9_16"}

\* the outer catch (error): 500 { error: String(error) }
OuterCatch(r) == Respond(r, Plain(500, "internal_error"))

\* POST / or /mcp: the body is read and parsed, the key resolved, the method
\* dispatched
HttpPost(r0) ==
    LET message == r0.req.message
        r == [r0 EXCEPT !.apiKey = ResolveApiKey(envKey, r0.req.cfg)]
    IN  IF message.body = "not_json" THEN OuterCatch(r0)
        ELSE IF message.body = "null" THEN OuterCatch(r)
        ELSE IF message.method = "initialize"
             THEN Respond(r, ToolResult(r, "initialize", FALSE, ""))
        ELSE IF message.method = "tools/list"
             THEN Respond(r, [ToolResult(r, "tools_list", FALSE, "")
                                EXCEPT !.tools = HttpListedTools])
        ELSE IF message.method = "tools/call" THEN HttpToolsCall(r)
        ELSE Respond(r, RpcError(r, "unknown_method"))

\* new URL(req.url, base) throws on a request target without a host ("//"):
\* line 23 is outside every try, the async handler's promise rejects unhandled
UrlThrows(route) == route = "GET //"

\* the handler up to its first await on the vendor, or to its response
HttpHandle(r) ==
    LET route == r.req.route IN
    IF route = "OPTIONS"
    THEN Respond(r, [NoResponse EXCEPT !.code = 204, !.kind = "no_content"])
    ELSE IF UrlThrows(route) THEN [r EXCEPT !.pc = "crashed"]
    ELSE IF route = "GET /health" THEN Respond(r, Plain(200, "health"))
    ELSE IF route = "POST /mcp" THEN HttpPost(r)
    ELSE Respond(r, [NoResponse EXCEPT !.code = 404, !.kind = "not_found"])

\* the timeout starts the generation again
AfterLoop_RetryOnTimeout(r) ==
    IF r.result # <<>> /\ HasGenerated(r.result[1])
    THEN LET imageUrl == ExtractUrl(r.result[1].generated[1]) IN
         IF ~FalsyStr(imageUrl)
         THEN Respond(r, ToolResult(r, "image_url", FALSE, imageUrl))
         ELSE Respond(r, ToolResult(r, "image_raw", FALSE, ""))
    ELSE StartGenerate([r EXCEPT !.i = 0])

\* after the loop: if (result && result.generated?.length > 0) ... else timeout
AfterLoop(r) ==
    IF r.result # <<>> /\ HasGenerated(r.result[1])
    THEN LET imageUrl == ExtractUrl(r.result[1].generated[1]) IN
         IF ~FalsyStr(imageUrl)
         THEN Respond(r, ToolResult(r, "image_url", FALSE, imageUrl))
         ELSE Respond(r, ToolResult(r, "image_raw", FALSE, ""))
    ELSE Respond(r, ToolResult(r, "timeout", TRUE, r.taskId))

\* the loop's bound is off by one: i <= 45
NextIteration_OffByOne(r) ==
    LET r1 == [r EXCEPT !.i = @ + 1] IN
    IF r1.i <= MaxPolls THEN [r1 EXCEPT !.pc = "waiting"] ELSE AfterLoop(r1)

\* for (let i = 0; i < 45; i++): the next iteration starts with its timer
NextIteration(r) ==
    LET r1 == [r EXCEPT !.i = @ + 1] IN
    IF r1.i < MaxPolls THEN [r1 EXCEPT !.pc = "waiting"] ELSE AfterLoop(r1)

\* without if (!taskId): the loop polls whatever taskData.task_id is
OnGenerateReply_NoIdCheck(r0, reply) ==
    LET r == NoteReply(r0, reply) IN
    IF reply.net = "reject" THEN GenerateCatch(Throw(r, "fetch failed"))
    ELSE IF ~reply.json THEN GenerateCatch(Throw(r, "invalid json"))
    ELSE [r EXCEPT !.taskId = Get(Unwrap(reply.body), "task_id"), !.pc = "waiting"]

\* the generation request is answered: task id, then the loop's first timer
OnGenerateReply(r0, reply) ==
    LET r == NoteReply(r0, reply) IN
    IF reply.net = "reject" THEN GenerateCatch(Throw(r, "fetch failed"))
    ELSE IF ~reply.json THEN GenerateCatch(Throw(r, "invalid json"))
    ELSE LET taskData == Unwrap(reply.body)
             taskId == Get(taskData, "task_id")
         IN  IF FalsyStr(taskId)
             THEN Respond(r, ToolResult(r, "no_task_id", TRUE, ""))
             ELSE [r EXCEPT !.taskId = taskId, !.pc = "waiting"]

\* apiKey is one variable of the module: the status check carries the key that
\* another request in flight has resolved
OnTimer_SharedKey(r) ==
    LET others == { h[t].apiKey : t \in { u \in AllSlots : h[u].pc # "idle" /\ h[u] # r } }
        key == IF others = {} THEN r.apiKey ELSE CHOOSE k \in others : TRUE
    IN  [r EXCEPT !.pc = "checking", !.waits = @ + 1, !.waitedMs = @ + PollIntervalMs,
                  !.checks = @ + 1, !.sentKeys = @ \cup {key},
                  !.checkedIds = @ \cup {r.taskId}]

\* the loop looks at the connection and stops once the client has gone
OnTimer_StopsWhenClientGone(r) ==
    IF r.clientGone THEN [r EXCEPT !.pc = "aborted"]
    ELSE [r EXCEPT !.pc = "checking", !.waits = @ + 1, !.waitedMs = @ + PollIntervalMs,
                   !.checks = @ + 1, !.sentKeys = @ \cup {r.apiKey},
                   !.checkedIds = @ \cup {r.taskId}]

\* await new Promise(r => setTimeout(r, 2000)) is over: the status request goes out
OnTimer(r) ==
    [r EXCEPT !.pc = "checking", !.waits = @ + 1, !.waitedMs = @ + PollIntervalMs,
              !.checks = @ + 1, !.sentKeys = @ \cup {r.apiKey},
              !.checkedIds = @ \cup {r.taskId}]

\* only FAILED is taken for a failure
IsFailed_OnlyFailed(status) == status = "FAILED"

\* status === 'FAILED' || status === 'ERROR'
IsFailed(status) == status \in FailedStatuses

\* COMPLETED ends the loop, with assets or without
IsDone_CompletedOnly(statusData) ==
    Get(statusData, "status") = "COMPLETED"

\* status === 'COMPLETED' && generated?.length > 0
IsDone(statusData) ==
    Get(statusData, "status") = "COMPLETED" /\ HasGenerated(statusData)

\* the status request is answered: the rest of the loop's body
OnStatusReply(r0, reply) ==
    LET r == NoteReply(r0, reply) IN
    IF reply.net = "reject" THEN GenerateCatch(Throw([r EXCEPT !.allPending = FALSE], "fetch failed"))
    ELSE IF ~reply.json THEN GenerateCatch(Throw([r EXCEPT !.allPending = FALSE], "invalid json"))
    ELSE LET statusData == Unwrap(reply.body)
             status == Get(statusData, "status")
             r1 == [r EXCEPT !.lastStatus = IF FalsyStr(status) THEN "UNKNOWN" ELSE status,
                             !.pendingBefore = r.allPending,
                             !.allPending = @ /\ status # "COMPLETED"
                                              /\ status \notin FailedStatuses]
         IN  IF IsDone(statusData)
             THEN AfterLoop([r1 EXCEPT !.result = <<statusData>>])
             ELSE IF IsFailed(status) THEN GenerateCatch(Throw(r1, "Generation failed"))
             ELSE NextIteration(r1)

\* the search request is answered
OnSearchReply(r0, reply) ==
    LET r == NoteReply(r0, reply) IN
    IF reply.net = "reject" THEN SearchCatch(Throw(r, "fetch failed"))
    ELSE IF ~reply.json THEN SearchCatch(Throw(r, "invalid json"))
    ELSE Respond(r, ToolResult(r, "search_data", FALSE, ""))

-----------------------------------------------------------------------------
(* The tool registry: index.ts (unnamed/part_000), createServer.  It is served  *)
(* by the SSE server (server.ts 640-733) with the environment's key.  Its       *)
(* FreepikClient (api/client.ts) is not among the sources: the client's calls   *)
(* are written from sections 4.1, 4.2 and 9 of the specification.               *)

\* limit: z.number().min(1).max(200).optional().default(20)
RegistryDefaultLimit == 20

\* the names of the server.tool(...) registrations
RegistryTools ==
    {"seedream_generate", "seedream_edit", "seedream_status", "search_resources",
     "get_resource", "download_resource", "mystic_generate"}

\* seedream_generate's aspect_ratio: z.enum([...])
RegistryAspectRatios ==
    {"square_1_1", "classic_4_3", "traditional_3_4", "widescreen_16_9",
     "social_story_9_16", "landscape_3_2", "portrait_2_3"}

\* guidance_scale: z.number().min(1).max(10).optional()
ValidGuidance(args) ==
    Has(args, "guidance_scale") =>
        (args.guidance_scale >= GuidanceMin /\ args.guidance_scale <= GuidanceMax)

\* limit: z.number().min(1).max(200).optional()
ValidLimit(args) ==
    Has(args, "limit") => (args.limit >= LimitMin /\ args.limit <= LimitMax)

\* the schema the tool is registered with, checked before its handler is called
ValidArgs(call) ==
    IF call.name = "seedream_generate" THEN ValidGuidance(call.arguments)
    ELSE IF call.name = "search_resources" THEN ValidLimit(call.arguments)
    ELSE IF call.name = "seedream_status" THEN Has(call.arguments, "task_id")
    ELSE TRUE

\* wait_for_result: z.boolean().optional().default(true)
WaitForResult(args) ==
    IF Has(args, "wait_for_result") THEN args.wait_for_result ELSE TRUE

RegistryLimit(args) ==
    IF Has(args, "limit") THEN args.limit ELSE RegistryDefaultLimit

\* catch (error) of a registered tool: { content: 'Error: ...', isError: true }
RegistryCatch(r) ==
    Respond(r, ToolResult(r, "caught", TRUE, r.thrown))

\* client.seedreamTextToImage(...): one authenticated generation request
ClientSeedreamTextToImage(r) ==
    [r EXCEPT !.pc = "generating", !.genReqs = @ + 1, !.sentKeys = @ \cup {r.apiKey}]

\* client.searchResources(...): one authenticated search request
ClientSearchResources(r) ==
    [r EXCEPT !.pc = "searching", !.searchReqs = @ + 1, !.sentKeys = @ \cup {r.apiKey},
              !.sentLimit = RegistryLimit(r.req.message.params.arguments)]

\* client.checkSeedreamStatus(task_id): one authenticated status check of the
\* caller's task id
ClientCheckSeedreamStatus(r) ==
    [r EXCEPT !.pc = "status", !.checks = @ + 1, !.sentKeys = @ \cup {r.apiKey},
              !.checkedIds = @ \cup {r.req.message.params.arguments.task_id}]

\* what a client call throws for a reply: a rejected request, a non-2xx status
\* (VendorError), a body that is no JSON; "" when it returns
ClientError(reply) ==
    IF reply.net = "reject" THEN "fetch failed"
    ELSE IF ~reply.ok THEN "VendorError"
    ELSE IF ~reply.json THEN "invalid json"
    ELSE ""

\* a call of a registered tool: the schema, then the handler to its first await
RegistryHandle(r0) ==
    LET call == r0.req.message.params
        r == [r0 EXCEPT !.apiKey = envKey]
    IN  IF ~ValidArgs(call) THEN Respond(r, RpcError(r, "invalid_params"))
        ELSE IF call.name = "seedream_generate" THEN ClientSeedreamTextToImage(r)
        ELSE IF call.name = "seedream_status" THEN ClientCheckSeedreamStatus(r)
        ELSE ClientSearchResources(r)

\* seedream_generate after waitForCompletion: the first asset's URL, or a dump
RegistryFormat(r) ==
    LET completed == r.result[1] IN
    IF HasGenerated(completed)
    THEN LET url == Get(completed.generated[1], "url") IN
         IF ~FalsyStr(url)
         THEN Respond(r, ToolResult(r, "image_url", FALSE, url))
         ELSE Respond(r, ToolResult(r, "image_no_url", FALSE, ""))
    ELSE Respond(r, ToolResult(r, "task_dump", FALSE, ""))

\* seedream_generate once seedreamTextToImage has returned or thrown
RegistryOnGenerateReply(r0, reply) ==
    LET r == NoteReply(r0, reply) IN
    IF ClientError(reply) # "" THEN RegistryCatch(Throw(r, ClientError(reply)))
    ELSE LET result == Unwrap(reply.body)
             taskId == Get(result, "task_id")
         IN  IF ~WaitForResult(r.req.message.params.arguments)
             THEN Respond(r, ToolResult(r, "task_started", FALSE, taskId))
             ELSE [r EXCEPT !.taskId = taskId, !.pc = "waiting"]

\* waitForCompletion: the interval is over, the status check goes out
ClientOnTimer(r) ==
    [r EXCEPT !.pc = "checking", !.waits = @ + 1, !.waitedMs = @ + PollIntervalMs,
              !.checks = @ + 1, !.sentKeys = @ \cup {r.apiKey},
              !.checkedIds = @ \cup {r.taskId}]

\* waitForCompletion: a status check is answered.  Completed returns the task,
\* failed raises GenerationFailed, the last attempt raises GenerationTimeout
ClientOnStatusReply(r0, reply) ==
    LET r == NoteReply(r0, reply) IN
    IF ClientError(reply) # ""
    THEN RegistryCatch(Throw([r EXCEPT !.allPending = FALSE], ClientError(reply)))
    ELSE LET statusData == Unwrap(reply.body)
             status == Get(statusData, "status")
             r1 == [r EXCEPT !.i = @ + 1,
                             !.pendingBefore = r.allPending,
                             !.allPending = @ /\ status # "COMPLETED"
                                              /\ status \notin FailedStatuses]
         IN  IF status = "COMPLETED" THEN RegistryFormat([r1 EXCEPT !.result = <<statusData>>])
             ELSE IF status \in FailedStatuses THEN RegistryCatch(Throw(r1, "GenerationFailed"))
             ELSE IF r1.i < DefaultMaxAttempts THEN [r1 EXCEPT !.pc = "waiting"]
             ELSE RegistryCatch(Throw(r1, "GenerationTimeout"))

\* seedream_status once checkSeedreamStatus has returned or thrown:
\* 'Status: COMPLETED ... Image URL: ...' or the task as JSON
RegistryOnStatusCheck(r0, reply) ==
    LET r == NoteReply(r0, reply) IN
    IF ClientError(reply) # "" THEN RegistryCatch(Throw(r, ClientError(reply)))
    ELSE LET result == Unwrap(reply.body) IN
         IF Get(result, "status") = "COMPLETED" /\ HasGenerated(result)
         THEN Respond(r, ToolResult(r, "status_url", FALSE, Get(result.generated[1], "url")))
         ELSE Respond(r, ToolResult(r, "task_dump", FALSE, ""))

\* without the slice: every resource of the page is summarized
Summarize_NoSlice(data) ==
    [j \in 1..Len(data) |->
        [id |-> data[j].id,
         title |-> data[j].title,
         preview |-> IF Has(data[j], "image") THEN data[j].image.source.url ELSE Undefined,
         author |-> IF Has(data[j], "author") THEN data[j].author.name ELSE Undefined]]

\* result.data.slice(0, 10).map(r => ({ id, title, preview: r.image?.source?.url,
\* author: r.author?.name }))
Summarize(data) ==
    [j \in 1..(IF Len(data) < SummaryMax THEN Len(data) ELSE SummaryMax) |->
        [id |-> data[j].id,
         title |-> data[j].title,
         preview |-> IF Has(data[j], "image") THEN data[j].image.source.url ELSE Undefined,
         author |-> IF Has(data[j], "author") THEN data[j].author.name ELSE Undefined]]

\* search_resources once searchResources has returned or thrown
RegistryOnSearchReply(r0, reply) ==
    LET r == NoteReply(r0, reply) IN
    IF ClientError(reply) # "" THEN RegistryCatch(Throw(r, ClientError(reply)))
    ELSE LET result == reply.body IN
         IF ~Has(result, "data") \/ ~Has(result, "meta")
         THEN RegistryCatch(Throw(r, "TypeError"))
         ELSE Respond(r, [ToolResult(r, "search_summary", FALSE, "")
                            EXCEPT !.total = result.meta.pagination.total,
                                   !.summary = Summarize(result.data)])

-----------------------------------------------------------------------------
(* Steps *)

\* The registry's server is one instance (server.ts 654) that every new stream
\* is connected to (693).  It writes a response to the transport it holds: the
\* one it held when the message arrived, or holds when the handler returns.
DeliveryTargets(r) ==
    IF r.pc = "done" /\ r.handedTo # 0 THEN {r.captured, sse.connected} ELSE {0}

\* transport.send(response): an event on the transport's stream if it is open
Delivered(r, t) ==
    IF r.pc = "done" /\ r.handedTo # 0
    THEN [r EXCEPT !.deliveredTo = IF t \in sse.streams THEN t ELSE 0]
    ELSE r

Update(s, r) == \E t \in DeliveryTargets(r) : h' = [h EXCEPT ![s] = Delivered(r, t)]

IsHttp(r) == r.req.transport = "http"

\* the requests the running server is given
Requests == IF deployment = "http" THEN HttpRequests ELSE RegistryRequests

Handle(r) == IF IsHttp(r) THEN HttpHandle(r) ELSE RegistryHandle(r)

\* a request of reqs arrives and its handler runs to its first await
ReceiveOf(s, reqs) ==
    /\ serving
    /\ h[s].pc = "idle"
    /\ \E req \in reqs :
         LET r == Handle([Idle EXCEPT !.req = req]) IN
         /\ Update(s, r)
         /\ serving' = (r.pc # "crashed")
    /\ UNCHANGED <<deployment, envKey, sse, issued>>

Receive(s) == ReceiveOf(s, Requests)

\* the vendor answers the generation request with one of replies
GenerateReplyOf(s, replies) ==
    /\ serving
    /\ h[s].pc = "generating"
    /\ \E reply \in replies :
         /\ Update(s, IF IsHttp(h[s]) THEN OnGenerateReply(h[s], reply)
                      ELSE RegistryOnGenerateReply(h[s], reply))
         /\ issued' = issued \cup IssuedBy(reply)
    /\ UNCHANGED <<deployment, envKey, serving, sse>>

GenerateReply(s) == GenerateReplyOf(s, VendorGenerateReplies)

\* the timer of one invocation waits for the other invocations' polls
TimerFires_OneAtATime(s) ==
    /\ serving
    /\ h[s].pc = "waiting"
    /\ \A t \in AllSlots \ {s} : h[t].pc \notin {"waiting", "checking"}
    /\ Update(s, IF IsHttp(h[s]) THEN OnTimer(h[s]) ELSE ClientOnTimer(h[s]))
    /\ UNCHANGED <<deployment, envKey, serving, sse, issued>>

\* the poll timer fires
TimerFires(s) ==
    /\ serving
    /\ h[s].pc = "waiting"
    /\ Update(s, IF IsHttp(h[s]) THEN OnTimer(h[s]) ELSE ClientOnTimer(h[s]))
    /\ UNCHANGED <<deployment, envKey, serving, sse, issued>>

\* the vendor answers a status check with one of replies
StatusReplyOf(s, replies) ==
    /\ serving
    /\ h[s].pc = "checking"
    /\ \E reply \in replies :
         Update(s, IF IsHttp(h[s]) THEN OnStatusReply(h[s], reply)
                   ELSE ClientOnStatusReply(h[s], reply))
    /\ UNCHANGED <<deployment, envKey, serving, sse, issued>>

StatusReply(s) == StatusReplyOf(s, VendorStatusReplies)

\* the vendor answers the search request
SearchReply(s) ==
    /\ serving
    /\ h[s].pc = "searching"
    /\ \E reply \in { v \in VendorSearchReplies : HonoursLimit(v, h[s].sentLimit) } :
         Update(s, IF IsHttp(h[s]) THEN OnSearchReply(h[s], reply)
                   ELSE RegistryOnSearchReply(h[s], reply))
    /\ UNCHANGED <<deployment, envKey, serving, sse, issued>>

\* the vendor answers seedream_status' status check
CheckReply(s) ==
    /\ serving
    /\ h[s].pc = "status"
    /\ \E reply \in VendorStatusReplies : Update(s, RegistryOnStatusCheck(h[s], reply))
    /\ UNCHANGED <<deployment, envKey, serving, sse, issued>>

\* the handler ends its session when it returns
Return_EndsSession(s) ==
    /\ serving
    /\ h[s].pc = "done"
    /\ Update(s, Idle)
    /\ sse' = [sse EXCEPT !.transports = MapDelete(@, h[s].req.sessionId)]
    /\ UNCHANGED <<deployment, envKey, serving, issued>>

\* the response is out and the handler has returned: its locals are gone
Return(s) ==
    /\ serving
    /\ h[s].pc = "done"
    /\ Update(s, Idle)
    /\ UNCHANGED <<deployment, envKey, serving, sse, issued>>

\* no SSE stream was opened yet: const transports = new Map()
NoSessions == [used |-> {}, streams |-> {}, transports |-> <<>>, connected |-> 0]

\* the SSE server exits at start without FREEPIK_API_KEY (server.ts 646-651)
StartsUp(dep, env) == ~(dep = "sse" /\ env = "")

Init ==
    /\ deployment \in {"http", "sse"}
    /\ envKey \in {"", "env-key"}
    /\ serving = StartsUp(deployment, envKey)
    /\ h = [s \in AllSlots |-> Idle]
    /\ sse = NoSessions
    /\ issued = {}

Next ==
    \E s \in Slots :
        \/ Receive(s)
        \/ GenerateReply(s)
        \/ TimerFires(s)
        \/ StatusReply(s)
        \/ SearchReply(s)
        \/ CheckReply(s)
        \/ Return(s)

Spec == Init /\ [][Next]_vars

-----------------------------------------------------------------------------
(* The SSE server: server.ts 640-733.  Its requests open a stream, post a     *)
(* message for a session, or are answered at once.                            *)

Conns == 1..MaxConns

\* const sessionId = crypto.randomUUID(): the key of the stream in `transports`
MapKey(c) == <<"uuid-a", c>>

\* new SSEServerTransport('/messages', res) draws a session id of its own, the
\* one its endpoint event gives the client: /messages?sessionId=...
TransportSessionId(c) == <<"uuid-b", c>>

\* url.searchParams.get('sessionId'): absent, no session's id, or either id of
\* a stream
SessionIdInputs ==
    {NoSessionId, <<"bogus", 0>>}
    \cup { MapKey(c) : c \in Conns } \cup { TransportSessionId(c) : c \in Conns }

\* the tool calls posted to /messages
SseCalls ==
    { [name |-> "seedream_generate", arguments |-> a] :
        a \in { [prompt |-> "a cat"], [prompt |-> "a cat", wait_for_result |-> FALSE] } }
    \cup { [name |-> "search_resources", arguments |-> [term |-> "sunset"]] }

SseRequests ==
    { [transport |-> "mcp", route |-> r, cfg |-> "absent", sessionId |-> NoSessionId,
       message |-> NoMessage] : r \in {"OPTIONS", "GET /health", "GET /other", "GET //"} }
    \cup { [transport |-> "mcp", route |-> "POST /messages", cfg |-> "absent",
             sessionId |-> sid,
             message |-> [body |-> "object", method |-> "tools/call", id |-> 1, params |-> c]] :
             sid \in SessionIdInputs, c \in SseCalls }

\* GET /sse or /mcp: a transport on the response, a fresh key for it in the
\* map, the close handler, and mcpServer.connect(transport)
OpenSse(c) ==
    /\ serving
    /\ deployment = "sse"
    /\ c \notin sse.used
    /\ c = Cardinality(sse.used) + 1
    /\ sse' = [used |-> sse.used \cup {c},
               streams |-> sse.streams \cup {c},
               transports |-> MapSet(sse.transports, MapKey(c), c),
               connected |-> c]
    /\ UNCHANGED <<deployment, envKey, serving, h, issued>>

\* the close handler leaves the entry in the map
CloseSse_KeepsEntry(c) ==
    /\ serving
    /\ c \in sse.streams
    /\ \E t \in (IF sse.connected = c THEN {0} ELSE {0, sse.connected}) :
         sse' = [sse EXCEPT !.streams = @ \ {c}, !.connected = t]
    /\ UNCHANGED <<deployment, envKey, serving, h, issued>>

\* res.on('close'): transports.delete(sessionId).  The transport's own close
\* handler tells the server, which drops the transport it holds, or keeps it
\* when it holds another stream's.
CloseSse(c) ==
    /\ serving
    /\ c \in sse.streams
    /\ \E t \in (IF sse.connected = c THEN {0} ELSE {0, sse.connected}) :
         sse' = [sse EXCEPT !.streams = @ \ {c},
                            !.transports = MapDelete(@, MapKey(c)),
                            !.connected = t]
    /\ UNCHANGED <<deployment, envKey, serving, h, issued>>

\* POST /messages: if (!sessionId || !transports.has(sessionId)) 400, else
\* the body is awaited
SsePost(r) ==
    LET sessionId == r.req.sessionId IN
    IF sessionId = NoSessionId \/ sessionId \notin DOMAIN sse.transports
    THEN Respond(r, Plain(400, "invalid_session"))
    ELSE [r EXCEPT !.pc = "body"]

\* the SSE server's handler up to its response or to its await
SseHandle(r) ==
    LET route == r.req.route IN
    IF route = "OPTIONS"
    THEN Respond(r, [NoResponse EXCEPT !.code = 200, !.kind = "no_content"])
    ELSE IF UrlThrows(route) THEN [r EXCEPT !.pc = "crashed"]
    ELSE IF route = "GET /health" THEN Respond(r, Plain(200, "health"))
    ELSE IF route = "POST /messages" THEN SsePost(r)
    ELSE Respond(r, Plain(404, "not_found"))

\* the lookup is outside the try: its failure escapes the handler
SseBodyEnd_Unguarded(r) ==
    LET sessionId == r.req.sessionId IN
    IF sessionId \notin DOMAIN sse.transports
    THEN [r EXCEPT !.pc = "crashed"]
    ELSE RegistryHandle([r EXCEPT !.handedTo = sse.transports[sessionId],
                                  !.captured = sse.connected])

\* req.on('end'): transports.get(sessionId)!.handlePostMessage(req, res, body).
\* Without the entry the call throws and the catch answers 500; with it the
\* transport gives the message to the server, whose registry handles the call.
SseBodyEnd(r) ==
    LET sessionId == r.req.sessionId IN
    IF sessionId \notin DOMAIN sse.transports
    THEN Respond(r, Plain(500, "internal_error"))
    ELSE RegistryHandle([r EXCEPT !.handedTo = sse.transports[sessionId],
                                  !.captured = sse.connected])

\* a request other than the opening of a stream arrives
SseReceive(s) ==
    /\ serving
    /\ deployment = "sse"
    /\ h[s].pc = "idle"
    /\ \E req \in SseRequests :
         LET r == SseHandle([Idle EXCEPT !.req = req]) IN
         /\ Update(s, r)
         /\ serving' = (r.pc # "crashed")
    /\ UNCHANGED <<deployment, envKey, sse, issued>>

\* the posted body has arrived
BodyEnd(s) ==
    /\ serving
    /\ h[s].pc = "body"
    /\ Update(s, SseBodyEnd(h[s]))
    /\ UNCHANGED <<deployment, envKey, serving, sse, issued>>

InitSse ==
    /\ deployment = "sse"
    /\ envKey \in {"", "env-key"}
    /\ serving = StartsUp(deployment, envKey)
    /\ h = [s \in AllSlots |-> Idle]
    /\ sse = NoSessions
    /\ issued = {}

NextSse ==
    \/ \E c \in Conns : OpenSse(c) \/ CloseSse(c)
    \/ \E s \in Slots :
          \/ SseReceive(s)
          \/ BodyEnd(s)
          \/ GenerateReply(s)
          \/ TimerFires(s)
          \/ StatusReply(s)
          \/ SearchReply(s)
          \/ Return(s)

SpecSse == InitSse /\ [][NextSse]_vars

-----------------------------------------------------------------------------
(* Two invocations of the HTTP endpoint's seedream_generate in flight.  The    *)
(* vendor answers in the documented shape: a task of its own for each          *)
(* generation request, and IN_PROGRESS, COMPLETED with an asset or FAILED for  *)
(* a status check.                                                             *)

\* seedream_generate calls with the key in the config parameter, or without
\* the parameter
ConcRequests ==
    { [transport |-> "http", route |-> "POST /mcp", cfg |-> c, sessionId |-> NoSessionId,
       message |-> [body |-> "object", method |-> "tools/call", id |-> 1,
                    params |-> [name |-> "seedream_generate",
                                arguments |-> [prompt |-> "a cat"]]]] :
        c \in {"key", "absent"} }

ConcTaskId(s) == IF s = 1 THEN "task-1" ELSE "task-2"

ConcGenerateReplies(s) ==
    { Json(TRUE, Enveloped([task_id |-> ConcTaskId(s), status |-> "CREATED"])) }

ConcStatusReplies ==
    { Json(TRUE, Enveloped([status |-> "IN_PROGRESS"])),
      Json(TRUE, Enveloped([status |-> "COMPLETED",
                            generated |-> <<[url |-> "https://cdn/a.png"]>>])),
      Json(TRUE, Enveloped([status |-> "FAILED", message |-> "nsfw"])) }

InitConc ==
    /\ deployment = "http"
    /\ envKey \in {"", "env-key"}
    /\ serving = StartsUp(deployment, envKey)
    /\ h = [s \in AllSlots |-> Idle]
    /\ sse = NoSessions
    /\ issued = {}

NextConc ==
    \E s \in AllSlots :
        \/ ReceiveOf(s, ConcRequests)
        \/ GenerateReplyOf(s, ConcGenerateReplies(s))
        \/ TimerFires(s)
        \/ StatusReplyOf(s, ConcStatusReplies)
        \/ Return(s)

SpecConc == InitConc /\ [][NextConc]_vars

-----------------------------------------------------------------------------
(* One seedream_generate call of the HTTP endpoint whose client may go away,   *)
(* with a vendor that answers every request and timers that fire.              *)

\* the handler's awaits
Polling(r) == r.pc \in {"generating", "waiting", "checking"}

\* The client's connection closes while the handler awaits.  The handler has no
\* listener on the request's or the response's close: nothing but the socket
\* changes.
Disconnect(s) ==
    /\ serving
    /\ Polling(h[s])
    /\ ~h[s].clientGone
    /\ Update(s, [h[s] EXCEPT !.clientGone = TRUE])
    /\ UNCHANGED <<deployment, envKey, serving, sse, issued>>

NextLive ==
    \E s \in Slots :
        \/ ReceiveOf(s, ConcRequests)
        \/ Disconnect(s)
        \/ GenerateReply(s)
        \/ TimerFires(s)
        \/ StatusReply(s)
        \/ Return(s)

\* every vendor request returns and every timer fires
Fairness ==
    \A s \in Slots :
        WF_vars(GenerateReply(s)) /\ WF_vars(TimerFires(s)) /\ WF_vars(StatusReply(s))

SpecLive == InitConc /\ [][NextLive]_vars /\ Fairness

-----------------------------------------------------------------------------
(* Both servers: the HTTP endpoint's requests, and the SSE server's streams    *)
(* and posted messages.                                                        *)

\* a request arrives at the HTTP endpoint
HttpReceive(s) == deployment = "http" /\ ReceiveOf(s, HttpRequests)

NextServers == NextSse \/ \E s \in Slots : HttpReceive(s)

SpecServers == Init /\ [][NextServers]_vars

-----------------------------------------------------------------------------
(* Properties *)

Call(r) == r.req.message.params

IsToolsCall(r) == r.req.message.method = "tools/call"

IsGenerate(r) == IsToolsCall(r) /\ Call(r).name = "seedream_generate"

IsSearch(r) == IsToolsCall(r) /\ Call(r).name = "search_resources"

\* a tool result that is not tagged as an error
IsSuccess(resp) == resp.envelope = "result" /\ ~resp.isError

\* a tool result tagged isError: true
IsErrorResult(resp) == resp.envelope = "result" /\ resp.isError

(* C1: in the HTTP handler's poll loop, when the vendor reports the task as   *)
(* COMPLETED for the first time on status check k (every earlier check having *)
(* reported a pending status), the handler answers with that k-th result and  *)
(* has made exactly k status checks and k waits, none after the k-th.         *)
C1_CompletedEndsPolling ==
    \A s \in Slots :
        LET r == h[s] IN
        (IsHttp(r) /\ IsGenerate(r) /\ r.lastStatus = "COMPLETED" /\ r.pendingBefore) =>
            /\ r.pc = "done"
            /\ IsSuccess(r.response)
            /\ r.result # <<>>
            /\ r.checks = r.i + 1
            /\ r.waits = r.checks

(* C2: in the HTTP handler, when every status check reports a non-terminal    *)
(* status, there are never more than MaxPolls (45) checks, each preceded by   *)
(* one 2-second wait; the invocation ends exactly when the 45th check has     *)
(* been answered, with an isError timeout response that carries the task id.  *)
C2_TimeoutAfterMaxPolls ==
    \A s \in Slots :
        LET r == h[s] IN
        (IsHttp(r) /\ IsGenerate(r) /\ r.checks > 0 /\ r.allPending) =>
            /\ r.checks <= MaxPolls
            /\ r.waits = r.checks
            /\ r.waitedMs = r.checks * PollIntervalMs
            /\ (r.pc = "done") = (r.checks = MaxPolls /\ r.i = MaxPolls)
            /\ r.pc = "done" =>
                  /\ IsErrorResult(r.response)
                  /\ r.response.kind = "timeout"
                  /\ r.response.detail = r.taskId
                  /\ r.taskId \in TaskIds
                  /\ r.nResponses = 1

\* a poll whose 45 checks were all answered pending has ended in the timeout
C2_Witness ==
    \E s \in Slots :
        /\ IsHttp(h[s]) /\ IsGenerate(h[s])
        /\ h[s].allPending /\ h[s].checks = MaxPolls
        /\ h[s].pc = "done" /\ h[s].response.kind = "timeout"

(* C3: in the HTTP handler, a status check that reports FAILED or ERROR ends  *)
(* the poll at that check: no wait and no status check follows it, the        *)
(* generation request was sent once, and the response is tagged isError.      *)
C3_FailedEndsPolling ==
    \A s \in Slots :
        LET r == h[s] IN
        (IsHttp(r) /\ IsGenerate(r) /\ r.lastStatus \in FailedStatuses) =>
            /\ r.pc = "done"
            /\ IsErrorResult(r.response)
            /\ r.nResponses = 1
            /\ r.result = <<>>
            /\ r.genReqs = 1
            /\ r.checks = r.i + 1
            /\ r.waits = r.checks

\* a task that was pending on its first checks and then reported failed
C3_Witness ==
    \E s \in Slots :
        /\ IsHttp(h[s]) /\ IsGenerate(h[s])
        /\ h[s].lastStatus \in FailedStatuses
        /\ h[s].checks > 1
        /\ h[s].pc = "done" /\ h[s].response.isError

(* C4 as claimed: a generate invocation that waits for the result ends either *)
(* in a success response with a non-empty asset URL or in an error response   *)
(* of kind generation-failed or timeout, and in nothing else.                 *)
C4_OnlyUrlOrFailedOrTimeout ==
    \A s \in Slots :
        LET r == h[s] IN
        (IsGenerate(r) /\ r.genReqs = 1 /\ (IsHttp(r) \/ WaitForResult(Call(r).arguments))
           /\ r.pc = "done") =>
            \/ IsSuccess(r.response) /\ r.response.kind = "image_url"
                                     /\ ~FalsyStr(r.response.detail)
            \/ IsErrorResult(r.response)
                 /\ \/ r.response.kind = "timeout"
                    \/ r.response.detail \in {"Generation failed", "GenerationFailed",
                                              "GenerationTimeout"}

(* C4 as amended: a generate invocation that waits for the result writes      *)
(* exactly one response, a tool result with the request's id: either not an   *)
(* error (the first asset's URL when it has one, otherwise a dump of the raw  *)
(* asset or task), or tagged isError (failed, timeout, no task id, or an      *)
(* error thrown by a vendor request); a response is an error exactly when no  *)
(* completed result was obtained, and the process keeps serving.              *)
C4_SuccessOrTaggedError ==
    \A s \in Slots :
        LET r == h[s] IN
        (IsGenerate(r) /\ r.genReqs = 1 /\ (IsHttp(r) \/ WaitForResult(Call(r).arguments))) =>
            /\ r.pc # "crashed"
            /\ serving
            /\ r.pc = "done" =>
                  /\ r.nResponses = 1
                  /\ r.response.envelope = "result"
                  /\ r.response.id = r.req.message.id
                  /\ r.response.isError = (r.result = <<>>)
                  /\ \/ /\ ~r.response.isError
                        /\ r.response.kind \in {"image_url", "image_raw", "image_no_url", "task_dump"}
                        /\ (r.response.kind = "image_url") = ~FalsyStr(r.response.detail)
                     \/ /\ r.response.isError
                        /\ r.response.kind \in {"timeout", "no_task_id", "caught"}
                        /\ (r.response.kind = "caught") = (r.thrown # "")

\* the HTTP handler answered a completed task whose first asset has no URL
C4_Witness ==
    \E s \in Slots :
        /\ IsHttp(h[s]) /\ IsGenerate(h[s]) /\ h[s].pc = "done"
        /\ h[s].response.kind = "image_raw" /\ ~h[s].response.isError

(* C5: a generate invocation with wait_for_result = false makes exactly one   *)
(* vendor request, the generation request, awaits no timer and makes no       *)
(* status check, and answers with the task id.                                *)
C5_NoWaitNoPolling ==
    \A s \in Slots :
        LET r == h[s] IN
        (IsGenerate(r) /\ ~WaitForResult(Call(r).arguments) /\ ValidArgs(Call(r))
           /\ ~FalsyStr(r.apiKey)) =>
            /\ r.genReqs = 1
            /\ r.waits = 0
            /\ r.checks = 0
            /\ (r.pc = "done" /\ IsSuccess(r.response)) => r.response.kind = "task_started"

(* C6: a tool call whose guidance_scale is outside [1,10] or whose limit is   *)
(* outside [1,200] is answered with an error and no vendor request is made    *)
(* for it, on the HTTP endpoint as on the registry.                           *)
C6_InvalidArgsRejected ==
    \A s \in Slots :
        LET r == h[s] IN
        (IsToolsCall(r) /\ ~ValidArgs(Call(r))) =>
            /\ VendorRequests(r) = 0
            /\ r.pc = "done" => (r.response.isError \/ r.response.envelope = "error")

\* no key from the environment nor from the config parameter
Keyless(r) == FalsyStr(ResolveApiKey(envKey, r.req.cfg))

\* a request of the HTTP endpoint whose body parsed to a message object
IsHttpMessage(r) ==
    IsHttp(r) /\ r.req.route = "POST /mcp" /\ r.req.message.body = "object"

(* C7 as claimed: without an API key the initialize call is answered with a   *)
(* configuration error, and no tool call makes a vendor request.              *)
C7_InitializeReportsMissingKey ==
    \A s \in Slots :
        LET r == h[s] IN
        (IsHttpMessage(r) /\ Keyless(r)) =>
            /\ VendorRequests(r) = 0
            /\ (r.pc = "done" /\ r.req.message.method = "initialize") =>
                   (r.response.isError \/ r.response.envelope = "error")

(* C7 as amended: without an API key the HTTP endpoint still answers          *)
(* initialize with its normal result; every tools/call is answered with the   *)
(* isError result 'No Freepik API key configured' before the tool is looked   *)
(* up, and no vendor request is made; no request ever goes out with an empty  *)
(* key; the SSE server does not start without the key.                        *)
C7_MissingKeyStopsToolCalls ==
    /\ (deployment = "sse" /\ envKey = "") => (~serving /\ \A s \in Slots : h[s] = Idle)
    /\ \A s \in Slots :
        LET r == h[s] IN
        /\ "" \notin r.sentKeys
        /\ (IsHttpMessage(r) /\ Keyless(r)) =>
            /\ VendorRequests(r) = 0
            /\ r.sentKeys = {}
            /\ r.pc = "done"
            /\ r.nResponses = 1
            /\ r.response.id = r.req.message.id
            /\ r.req.message.method = "initialize" =>
                   (IsSuccess(r.response) /\ r.response.kind = "initialize")
            /\ IsToolsCall(r) =>
                   (IsErrorResult(r.response) /\ r.response.kind = "no_api_key")

\* a tool call without any key was answered with the configuration error
C7_Witness ==
    \E s \in Slots :
        /\ IsHttpMessage(h[s]) /\ Keyless(h[s]) /\ IsGenerate(h[s])
        /\ h[s].pc = "done" /\ h[s].response.kind = "no_api_key"

(* C8: once the vendor has answered a request of a tool call with a non-2xx   *)
(* status, no further vendor request is made for the call and its response is *)
(* tagged isError.                                                            *)
C8_Non2xxIsError ==
    \A s \in Slots :
        LET r == h[s] IN
        r.non2xx => (r.pc = "done" /\ IsErrorResult(r.response))

(* C9: an error raised while a tool handler runs (a rejected vendor request,  *)
(* a vendor body that is no JSON, a failed task) is caught in the handler and *)
(* answered with one tool result tagged isError; the process keeps serving.   *)
C9_ToolErrorsCaught ==
    \A s \in Slots :
        LET r == h[s] IN
        r.thrown # "" =>
            /\ serving
            /\ r.pc = "done"
            /\ r.nResponses = 1
            /\ r.response.code = 200
            /\ IsErrorResult(r.response)
            /\ r.response.id = r.req.message.id

\* a status check of the HTTP handler was answered with a body that is no JSON
C9_Witness ==
    \E s \in Slots :
        /\ IsHttp(h[s]) /\ IsGenerate(h[s]) /\ h[s].checks > 0
        /\ h[s].thrown = "invalid json" /\ h[s].pc = "done" /\ serving

Malformed(r) == r.req.message.body \in {"not_json", "null"}

UnknownMethod(r) ==
    r.req.message.body = "object"
    /\ r.req.message.method \notin {"initialize", "tools/list", "tools/call"}

UnknownTool(r) == IsToolsCall(r) /\ Call(r).name \notin HttpTools

IsHttpPost(r) == IsHttp(r) /\ r.req.route = "POST /mcp"

C11_MapIsOpenStreams ==
    /\ DOMAIN sse.transports = { MapKey(c) : c \in sse.streams }
    /\ \A c \in sse.streams : sse.transports[MapKey(c)] = c

\* a stream has closed while a later one is open
C11_Witness ==
    /\ sse.used = {1, 2}
    /\ sse.streams = {2}
    /\ DOMAIN sse.transports = {MapKey(2)}

\* C12: a message posted with the session id its client was given for an open
\* stream is handed to that stream's transport, and a message without a
\* session id, or with one that is not in the map, is answered with an error
\* and handed to no transport.
C12_PostReachesItsSession ==
    \A s \in Slots :
        LET r == h[s] IN
        (r.req.route = "POST /messages" /\ r.req.transport = "mcp" /\ r.pc = "done") =>
            /\ \A c \in sse.streams :
                 r.req.sessionId = TransportSessionId(c) =>
                     (r.handedTo = c /\ r.response.kind # "invalid_session")
            /\ (r.req.sessionId = NoSessionId \/ r.req.sessionId = <<"bogus", 0>>) =>
                 (r.handedTo = 0 /\ r.response.code = 400)

\* C14: a second stream opened while a first is open changes nothing for the
\* first: the response to a message handed to an open stream's transport is
\* written to that stream.
C14_ResponseOnOwnStream ==
    \A s \in Slots :
        LET r == h[s] IN
        (r.pc = "done" /\ r.handedTo # 0 /\ r.handedTo \in sse.streams) =>
            r.deliveredTo = r.handedTo

\* C13: concurrent polls do not serialize.  Whatever the other invocation is
\* doing, an invocation's next step is enabled: its timer can fire while it
\* waits, its status check can be answered, and its response can be returned.
C13_PollsDoNotSerialize ==
    \A s \in AllSlots :
        /\ h[s].pc = "generating" => ENABLED GenerateReplyOf(s, ConcGenerateReplies(s))
        /\ h[s].pc = "waiting" => ENABLED TimerFires(s)
        /\ h[s].pc = "checking" => ENABLED StatusReplyOf(s, ConcStatusReplies)
        /\ h[s].pc = "done" => ENABLED Return(s)

\* B has its image after one check while A, on another task, has made more
\* checks and is in a wait
C13_Witness ==
    \E a, b \in AllSlots :
        /\ h[a].pc = "waiting" /\ h[a].checks >= 2
        /\ h[b].pc = "done" /\ h[b].response.kind = "image_url" /\ h[b].checks = 1
        /\ h[a].taskId # h[b].taskId

\* C15: a poll is not aborted by its client's disconnect and it terminates.
\* With every vendor request answered, an invocation that awaits the vendor or
\* the timer, its client gone or not, comes to its response, and it does so
\* with a completed task, with an error raised in the loop, or after the last
\* of the 45 attempts.
C15_PollTerminates ==
    \A s \in Slots :
        Polling(h[s]) ~>
            (/\ h[s].pc = "done"
             /\ \/ h[s].response.kind = "no_task_id"
                \/ h[s].result # <<>>
                \/ h[s].thrown # ""
                \/ h[s].i = MaxPolls)

\* the client left before the first check and the loop made all its checks
C15_Witness ==
    \E s \in Slots :
        /\ h[s].clientGone
        /\ h[s].pc = "done"
        /\ h[s].response.kind = "timeout"
        /\ h[s].checks = MaxPolls

\* C16: the HTTP message endpoint serves the registry's tools.  Its tools/list
\* names the registered tools with the registry's enumerations and defaults,
\* and a tools/call of a registered tool is dispatched, not answered with
\* "Unknown tool".
C16_HttpServesRegistry ==
    \A s \in Slots :
        LET r == h[s] IN
        (IsHttpMessage(r) /\ r.pc = "done") =>
            /\ r.response.kind = "tools_list" =>
                 /\ r.response.tools = RegistryTools
                 /\ HttpAspectRatios = RegistryAspectRatios
                 /\ HttpDefaultLimit = RegistryDefaultLimit
            /\ (IsToolsCall(r) /\ Call(r).name \in RegistryTools) =>
                 r.response.kind # "unknown_tool"

IsStatusTool(r) == IsToolsCall(r) /\ Call(r).name = "seedream_status"

\* C17 as stated: every task id passed to a status check is one the vendor
\* has returned to an earlier generation request.
C17_ChecksOnlyIssuedIds ==
    \A s \in Slots : h[s].checkedIds \subseteq issued

\* C17: on the HTTP endpoint the status checks of a seedream_generate call are
\* all for the task id the vendor returned to that call's generation request;
\* the registry's seedream_status checks the task id its caller gave.
C17_ChecksOwnOrCallersId ==
    \A s \in Slots :
        LET r == h[s] IN
        /\ (IsHttp(r) /\ r.checks > 0) =>
             (r.checkedIds = {r.taskId} /\ r.checkedIds \subseteq issued)
        /\ (~IsHttp(r) /\ IsStatusTool(r) /\ r.checks > 0) =>
             r.checkedIds = {Call(r).arguments.task_id}

\* the HTTP endpoint's second check of the task it started
C17_Witness ==
    \E s \in Slots :
        /\ IsHttp(h[s])
        /\ h[s].checks = 2
        /\ h[s].checkedIds = {"task-1"}
        /\ "task-1" \in issued

C19_KeyResolution ==
    \A s \in Slots :
        LET r == h[s]
            cfg == r.req.cfg
            expected == IF cfg = "key" THEN ConfigKey ELSE envKey
        IN  (IsHttpMessage(r) /\ r.pc # "idle") =>
                /\ r.apiKey = expected
                /\ VendorRequests(r) > 0 => r.sentKeys = {expected}
                /\ (cfg = "garbage" /\ r.pc = "done") => r.response.code # 500

\* the parameter's key on the generation request and on two status checks,
\* with another key in the environment
C19_Witness ==
    \E s \in Slots :
        /\ IsHttpMessage(h[s]) /\ h[s].req.cfg = "key" /\ envKey = "env-key"
        /\ h[s].checks = 2
        /\ h[s].sentKeys = {ConfigKey}

\* C20: no tool call changes the state of the process.  A step of a handler
\* invocation, whatever its outcome, leaves the session map and the
\* environment's key as they are, and the session map changes only when a
\* stream is opened or closes.
C20_ToolCallsKeepProcessState ==
    [][ /\ (h' # h) => (sse'.transports = sse.transports /\ envKey' = envKey)
        /\ (sse'.transports # sse.transports) =>
               (h' = h /\ sse'.streams # sse.streams /\ envKey' = envKey) ]_vars

\* a tool call that timed out, answered while its session is in the map
C20_Witness ==
    \E s \in Slots :
        /\ h[s].pc = "done"
        /\ h[s].thrown = "GenerationTimeout"
        /\ h[s].req.sessionId \in DOMAIN sse.transports

\* C21: every request handled by the HTTP endpoint's handler gets exactly one
\* response.  A handler that has ended has written one response, no handler
\* ends without one, and none writes a second.
C21_ExactlyOneResponse ==
    \A s \in Slots :
        LET r == h[s] IN
        IsHttp(r) =>
            /\ r.nResponses <= 1
            /\ r.pc = "done" => r.nResponses = 1
            /\ r.pc # "crashed"

\* C22: when the stream of a session closes after a /messages request for it
\* has passed the session check and before the body has arrived, the body's
\* end finds no entry: the request is answered 500 'Internal server error',
\* the handler ends with that one response, the server goes on, and the
\* message is handed to no transport.
C22_LateCloseIs500 ==
    [][ \A s \in Slots :
          (/\ h[s].pc = "body"
           /\ h[s].req.sessionId \notin DOMAIN sse.transports
           /\ h'[s] # h[s]) =>
              /\ h'[s].pc = "done"
              /\ h'[s].response.code = 500
              /\ h'[s].response.kind = "internal_error"
              /\ h'[s].nResponses = 1
              /\ h'[s].handedTo = 0
              /\ serving' ]_vars

\* stream 1 closed under a request that had passed the session test, stream 2 is open
C22_Witness ==
    \E s \in Slots :
        /\ h[s].req.route = "POST /messages"
        /\ h[s].req.sessionId = MapKey(1)
        /\ h[s].pc = "done"
        /\ h[s].response.code = 500
        /\ h[s].handedTo = 0
        /\ sse.streams = {2}

\* C23: a seedream_generate invocation sends the generation request once.
\* Whatever follows it (pending checks, a failed task, the timeout, a status
\* check that throws), no invocation sends a second one, and an invocation
\* that got past the key guard (HTTP endpoint) or the schema (registry) has
\* sent exactly one.
C23_GeneratesOnce ==
    \A s \in Slots :
        LET r == h[s] IN
        /\ r.genReqs <= 1
        /\ (IsToolsCall(r) /\ ~IsGenerate(r)) => r.genReqs = 0
        /\ IsGenerate(r) =>
             /\ r.pc \in {"generating", "waiting", "checking"} => r.genReqs = 1
             /\ r.checks > 0 => r.genReqs = 1
             /\ (r.pc = "done" /\ IsHttpMessage(r) /\ ~Keyless(r)) => r.genReqs = 1
             /\ (r.pc = "done" /\ ~IsHttp(r) /\ ValidArgs(Call(r))) => r.genReqs = 1

\* a status check threw after several pending ones: still one generation request
C23_Witness ==
    \E s \in Slots :
        /\ IsGenerate(h[s]) /\ h[s].pc = "done"
        /\ h[s].thrown # "" /\ h[s].checks >= 3
        /\ h[s].genReqs = 1

\* C24: in the HTTP endpoint's poll loop a success is answered only for a check
\* that reported COMPLETED with at least one asset.  A check that reports
\* COMPLETED without assets is followed by the next wait like a pending one,
\* or, when it was the 45th, by the timeout response, which is written only
\* after 45 checks and names the last status reported.
C24_CompletedNeedsAssets ==
    /\ [](\A s \in Slots :
            LET r == h[s] IN
            (IsHttp(r) /\ IsGenerate(r) /\ r.pc = "done") =>
                /\ r.response.kind \in {"image_url", "image_raw"} =>
                     (r.result # <<>> /\ r.lastStatus = "COMPLETED"
                      /\ HasGenerated(r.result[1]))
                /\ r.response.kind = "timeout" =>
                     (r.result = <<>> /\ r.checks = MaxPolls /\ r.response.isError))
    /\ [][ \A s \in Slots :
             (/\ IsHttp(h[s]) /\ h[s].pc = "checking"
              /\ h'[s].checks = h[s].checks
              /\ h'[s].lastStatus = "COMPLETED"
              /\ h'[s].result = <<>>
              /\ h'[s].thrown = "") =>
                 IF h[s].i + 1 < MaxPolls
                 THEN h'[s].pc = "waiting" /\ h'[s].i = h[s].i + 1
                 ELSE h'[s].pc = "done" /\ h'[s].response.kind = "timeout" ]_vars

\* the 45th check reported COMPLETED without assets like the one before it:
\* the call ends in the timeout response
C24_Witness ==
    \E s \in Slots :
        /\ IsHttp(h[s]) /\ h[s].pc = "done"
        /\ h[s].response.kind = "timeout"
        /\ h[s].lastStatus = "COMPLETED"
        /\ ~h[s].pendingBefore
        /\ h[s].checks = MaxPolls

\* C25: the key on the vendor requests of a call is its own.  Every request a
\* call sends carries the key of that call's config parameter, or the
\* environment's when it has none, and of two calls in flight with different
\* keys neither has sent the other's, through every interleaving of their
\* waits and vendor requests.
C25_KeyIsolation ==
    /\ \A s \in AllSlots :
         h[s].pc # "idle" =>
             h[s].sentKeys \subseteq {IF h[s].req.cfg = "key" THEN ConfigKey ELSE envKey}
    /\ \A a, b \in AllSlots :
         (a # b /\ h[a].pc # "idle" /\ h[b].pc # "idle" /\ h[a].apiKey # h[b].apiKey) =>
             h[b].apiKey \notin h[a].sentKeys

\* two calls poll together, one with the parameter's key and one with the
\* environment's, each after several requests of its own
C25_Witness ==
    \E a, b \in AllSlots :
        /\ h[a].pc = "waiting" /\ h[b].pc = "checking"
        /\ h[a].checks >= 2 /\ h[b].checks >= 2
        /\ h[a].sentKeys = {ConfigKey}
        /\ h[b].sentKeys = {"env-key"}

====
